---- MODULE Spec2Model ----
(***************************************************************************)
(* A state-machine model of the Monte-Carlo pricer of QuantMath            *)
(* (src/src/pricers/montecarlo.rs): MonteCarloPricerFactory::new, and the  *)
(* Pricer / Bumpable / TimeBumpable implementations of MonteCarloPricer.   *)
(*                                                                         *)
(* The pricer is a thin orchestrator.  The collaborators it calls          *)
(* (Instrument, MonteCarloTimeline, PricingContextPrefetch, the            *)
(* MonteCarloModel and its factory, BumpTime::apply) live in other files   *)
(* of the repository; they are modelled here from their documented         *)
(* contract and are marked as such where they are defined.                 *)
(*                                                                         *)
(* Reals (f64 weights, prices, market levels) are modelled by integers:    *)
(* every sum below is taken in the same order as the code takes it.        *)
(***************************************************************************)
EXTENDS Integers, Sequences, FiniteSets, TLC

\* ------------------------------------------------------------------ bounds
\* Market levels range over 0..MaxLevel (a bump that would leave the range
\* upwards is not offered; one that would go below 0 is rejected by the Model).
MaxLevel == 2
\* Dates are 0..MaxDate; the market data's spot date is date 0.
MaxDate == 2
\* The longest weighted instrument list instrument.fix() returns.
MaxLegs == 2
\* The largest weight in a weighted instrument list.
MaxWeight == 2

\* ------------------------------------------------------------------ inputs
\* The leaf instruments the inputs are built from.
\*   call   : Monte-Carlo priceable, depends on BP.L
\*   fwd    : Monte-Carlo priceable, depends on LSE
\*   cash   : has no Monte-Carlo capability (as_mc_priceable() is None)
\*   bond   : has no Monte-Carlo capability either
\*   exotic : Monte-Carlo priceable, but its mc_dependencies() fails
Leaves == {"call", "fwd", "cash", "bond", "exotic"}
\* A composite instrument, Monte-Carlo priceable as it stands on BP.L,
\* whose fix() may decompose it into weighted legs.
Composites == {"basket"}
InstrumentIds == Leaves \cup Composites

\* Market observables.  GBP is referenced by no instrument.
Observables == {"BP.L", "LSE", "GBP"}

Weights == 1..MaxWeight
Levels == 0..MaxLevel
Dates == 0..MaxDate

\* instrument.as_mc_priceable(): Some for these, None otherwise.
IsMcPriceable(instr) == instr \in {"call", "fwd", "exotic", "basket"}

\* Whether mc.mc_dependencies(..) returns Ok for an MC-priceable instrument.
McDependenciesOk(instr) == instr # "exotic"

\* The observable dependencies.spot(instr) records for the instrument.
Underlying(instr) ==
    CASE instr = "call" -> "BP.L"
      [] instr = "fwd" -> "LSE"
      [] instr = "cash" -> "GBP"
      [] instr = "bond" -> "GBP"
      [] instr = "exotic" -> "BP.L"
      [] OTHER -> "BP.L"

\* The dates mc_dependencies() adds to the timeline, in the order added.
McDates(instr) ==
    CASE instr = "call" -> <<MaxDate>>
      [] instr = "basket" -> <<1>>
      [] instr = "fwd" -> <<MaxDate, 1, MaxDate>>
      [] OTHER -> << >>

\* The last date on which the instrument is alive.
Expiry(instr) ==
    CASE instr = "fwd" -> 1
      [] OTHER -> MaxDate

\* All weighted instrument lists of length 0..MaxLegs.
WeightedLists ==
    UNION {[1..n -> Weights \X Leaves] : n \in 0..MaxLegs}

\* The decompositions the pricer's operations are explored on: a two-leg
\* basket with unequal weights and underlyings, and a basket with a leg
\* that has no Monte-Carlo capability.
SampleLists ==
    {<<<<MaxWeight, "call">>, <<1, "fwd">>>>,
     <<<<1, "call">>, <<1, "cash">>>>}

\* What instrument.fix(fixing_table) can return: an error, None, or
\* Some(weighted list) with the list among lists.  A leaf never decomposes.
FixResults(instrument, lists) ==
    {[kind |-> "err", list |-> << >>], [kind |-> "none", list |-> << >>]}
    \cup (IF instrument \in Leaves THEN {}
          ELSE {[kind |-> "some", list |-> l] : l \in lists})

\* The market-data snapshots offered: the observables each can serve.
MarketDatas ==
    {[avail |-> Observables], [avail |-> Observables \ {"LSE"}]}

\* ------------------------------------------------- collaborators (contract)
\* MonteCarloTimeline: dates accumulate in any order, with duplicates;
\* collate() freezes them into a strictly increasing schedule, and fails
\* when no instrument declared a date.
TimelineNew == << >>

CollateOk(timeline) == Len(timeline) > 0

RECURSIVE SortedSeq(_)
SortedSeq(S) ==
    IF S = {} THEN << >>
    ELSE LET lo == CHOOSE x \in S : \A y \in S : x <= y
         IN <<lo>> \o SortedSeq(S \ {lo})

Collate(timeline) == SortedSeq({timeline[k] : k \in 1..Len(timeline)})

\* PricingContextPrefetch::new: fails when the snapshot cannot serve a
\* dependency.
PrefetchOk(marketData, deps) == deps \subseteq marketData.avail

\* The level every observable has in the market-data snapshot.
SnapshotLevel(obs) == 1

\* MonteCarloModelFactory::factory: the Model holds a level for every
\* observable of the context and the valuation date, the spot date.
ModelFactory(timeline, deps) ==
    [levels |-> [o \in deps |-> SnapshotLevel(o)], date |-> 0]

\* ------------------------------------------------------- construction
\* "Instrument {} is not priceable by MonteCarlo", instr.id()
NotPriceableError(instr) ==
    <<"Instrument", instr, "is not priceable by MonteCarlo">>

\* Mutant: the loop skips an instrument without Monte-Carlo capability
\* instead of returning the error.
RECURSIVE ValidateLoopSkipping(_, _, _)
ValidateLoopSkipping(instrs, k, acc) ==
    IF k > Len(instrs) THEN acc
    ELSE LET instr == instrs[k][2]
             spotted == [acc EXCEPT !.deps = @ \cup {Underlying(instr)},
                                    !.calls = Append(@, <<"spot", instr>>)]
         IN IF IsMcPriceable(instr)
            THEN LET called == [spotted EXCEPT
                         !.calls = Append(@, <<"mc_dependencies", instr>>)]
                 IN IF McDependenciesOk(instr)
                    THEN ValidateLoopSkipping(instrs, k + 1,
                             [called EXCEPT !.timeline = @ \o McDates(instr)])
                    ELSE [called EXCEPT !.err = <<"mc_dependencies", instr>>]
            ELSE ValidateLoopSkipping(instrs, k + 1, spotted)

\* Mutant: each mc_dependencies call is handed a timeline of its own, so
\* only the dates of the last instrument are kept.
RECURSIVE ValidateLoopFreshTimeline(_, _, _)
ValidateLoopFreshTimeline(instrs, k, acc) ==
    IF k > Len(instrs) THEN acc
    ELSE LET instr == instrs[k][2]
             spotted == [acc EXCEPT !.deps = @ \cup {Underlying(instr)},
                                    !.calls = Append(@, <<"spot", instr>>)]
         IN IF IsMcPriceable(instr)
            THEN LET called == [spotted EXCEPT
                         !.calls = Append(@, <<"mc_dependencies", instr>>)]
                 IN IF McDependenciesOk(instr)
                    THEN ValidateLoopFreshTimeline(instrs, k + 1,
                             [called EXCEPT !.timeline = McDates(instr)])
                    ELSE [called EXCEPT !.err = <<"mc_dependencies", instr>>]
            ELSE [spotted EXCEPT !.err = NotPriceableError(instr)]

\* The for loop of PricerFactory::new over the weighted list, from entry k.
\* acc carries the dependency collector, the timeline, the log of calls made
\* on collaborators, and the error the loop returned with (<< >> for none).
RECURSIVE ValidateLoop(_, _, _)
ValidateLoop(instrs, k, acc) ==
    IF k > Len(instrs) THEN acc
    ELSE LET instr == instrs[k][2]
             spotted == [acc EXCEPT !.deps = @ \cup {Underlying(instr)},
                                    !.calls = Append(@, <<"spot", instr>>)]
         IN IF IsMcPriceable(instr)
            THEN LET called == [spotted EXCEPT
                         !.calls = Append(@, <<"mc_dependencies", instr>>)]
                 IN IF McDependenciesOk(instr)
                    THEN ValidateLoop(instrs, k + 1,
                             [called EXCEPT !.timeline = @ \o McDates(instr)])
                    ELSE [called EXCEPT !.err = <<"mc_dependencies", instr>>]
            ELSE [spotted EXCEPT !.err = NotPriceableError(instr)]

\* Mutant: the fixed list is ignored and the original instrument kept.
FixedInstrumentsOriginal(instrument, fixed) == <<<<1, instrument>>>>

\* instrument.fix(&*fixing_table)? followed by the match on its result.
FixedInstruments(instrument, fixed) ==
    IF fixed.kind = "some" THEN fixed.list ELSE <<<<1, instrument>>>>

NoModel == [levels |-> << >>, date |-> 0]

Failure(err, calls) ==
    [ok |-> FALSE, err |-> err, calls |-> calls, instruments |-> << >>,
     model |-> NoModel, timeline |-> << >>]

\* Mutant: the result of timeline.collate() is dropped rather than
\* propagated.
ValidatedIgnoringCollate(instrs) ==
    LET loop == ValidateLoop(instrs, 1,
                    [deps |-> {}, timeline |-> TimelineNew,
                     calls |-> <<<<"fix">>>>, err |-> << >>])
        collated == [loop EXCEPT !.calls = Append(@, <<"collate">>)]
    IN IF loop.err # << >> THEN loop
       ELSE [collated EXCEPT !.timeline = Collate(@)]

\* Mutant: the timeline goes to the model factory as the instruments filled
\* it, the collated schedule being discarded.
ValidatedUncollated(instrs) ==
    LET loop == ValidateLoop(instrs, 1,
                    [deps |-> {}, timeline |-> TimelineNew,
                     calls |-> <<<<"fix">>>>, err |-> << >>])
        collated == [loop EXCEPT !.calls = Append(@, <<"collate">>)]
    IN IF loop.err # << >> THEN loop
       ELSE IF ~CollateOk(loop.timeline)
            THEN [collated EXCEPT !.err = <<"collate">>]
       ELSE collated

\* The validation half of PricerFactory::new: the loop over the weighted
\* list, then timeline.collate()?.
Validated(instrs) ==
    LET loop == ValidateLoop(instrs, 1,
                    [deps |-> {}, timeline |-> TimelineNew,
                     calls |-> <<<<"fix">>>>, err |-> << >>])
        collated == [loop EXCEPT !.calls = Append(@, <<"collate">>)]
    IN IF loop.err # << >> THEN loop
       ELSE IF ~CollateOk(loop.timeline)
            THEN [collated EXCEPT !.err = <<"collate">>]
       ELSE [collated EXCEPT !.timeline = Collate(@)]

\* Mutant: the context and the model are built before the validation
\* result is looked at.
BuiltBeforeCheck(instrs, v, marketData, modelOk) ==
    LET c2 == Append(v.calls, <<"prefetch">>)
        c3 == Append(c2, <<"factory">>)
    IN IF ~PrefetchOk(marketData, v.deps) THEN Failure(<<"prefetch">>, c2)
       ELSE IF ~modelOk
            THEN [Failure(<<"factory">>, c3) EXCEPT !.timeline = v.timeline]
       ELSE IF v.err # << >> THEN Failure(v.err, c3)
       ELSE [ok |-> TRUE, err |-> << >>, calls |-> c3,
             instruments |-> instrs,
             model |-> ModelFactory(v.timeline, v.deps),
             timeline |-> v.timeline]

\* The building half of PricerFactory::new, reached only when validation
\* returned no error: the prefetched context, the model, the Pricer.
\* modelOk says whether the model factory accepts (timeline, context).
Built(instrs, v, marketData, modelOk) ==
    LET c2 == Append(v.calls, <<"prefetch">>)
        c3 == Append(c2, <<"factory">>)
    IN IF v.err # << >> THEN Failure(v.err, v.calls)
       ELSE IF ~PrefetchOk(marketData, v.deps)
            THEN Failure(<<"prefetch">>, c2)
       ELSE IF ~modelOk
            THEN [Failure(<<"factory">>, c3) EXCEPT !.timeline = v.timeline]
       ELSE [ok |-> TRUE, err |-> << >>, calls |-> c3,
             instruments |-> instrs,
             model |-> ModelFactory(v.timeline, v.deps),
             timeline |-> v.timeline]

\* PricerFactory::new for MonteCarloPricerFactory.
FactoryNew(instrument, fixed, marketData, modelOk) ==
    IF fixed.kind = "err" THEN Failure(<<"fix", instrument>>, <<<<"fix">>>>)
    ELSE LET instrs == FixedInstruments(instrument, fixed)
         IN Built(instrs, Validated(instrs), marketData, modelOk)

\* ------------------------------------------ the Model (contract, external)
\* A Bump names a target observable and a shift of its level.
Shifts == {-1, 1}
Bumps == [target : Observables, shift : Shifts]

\* A Saveable is the set of <<observable, level before the first bump>>
\* pairs recorded since it was last cleared.
EmptySaveable == {}

HasSaved(sv, obs) == \E p \in sv : p[1] = obs

SavedLevel(sv, obs) == (CHOOSE p \in sv : p[1] = obs)[2]

\* MonteCarloModel::bump.  Ok(false) and no mutation when the Model never
\* referenced the target; an error and no mutation when the shifted level
\* is not a valid market level; otherwise the level before the bump is
\* captured into save (unless save already holds one for the target), the
\* level is shifted, and the result is Ok(true).
ModelBump(m, bump, sv) ==
    IF bump.target \notin DOMAIN m.levels
    THEN [ok |-> TRUE, val |-> FALSE, model |-> m, save |-> sv]
    ELSE IF m.levels[bump.target] + bump.shift < 0
    THEN [ok |-> FALSE, val |-> FALSE, model |-> m, save |-> sv]
    ELSE [ok |-> TRUE, val |-> TRUE,
          model |-> [m EXCEPT !.levels[bump.target] = @ + bump.shift],
          save |-> IF HasSaved(sv, bump.target) THEN sv
                   ELSE sv \cup {<<bump.target, m.levels[bump.target]>>}]

\* MonteCarloModel::restore: every level save recorded is put back.
ModelRestore(m, svd) ==
    [ok |-> TRUE,
     model |-> [m EXCEPT !.levels =
                   [o \in DOMAIN m.levels |->
                       IF HasSaved(svd, o) THEN SavedLevel(svd, o)
                       ELSE m.levels[o]]]]

ModelNewSaveable(m) == EmptySaveable

ModelDependencies(m) == DOMAIN m.levels

\* model.as_bumpable().context(): the cached market levels.
ModelContext(m) == m.levels

\* model.as_mc_context(): the valuation context instruments price on.
AsMcContext(m) == m

\* The instrument's own mc_price(context): Ok(value), or an error when the
\* level it prices on is zero.
McPriceOk(instr, context) == context.levels[Underlying(instr)] # 0

McPrice(instr, context) ==
    context.levels[Underlying(instr)] * (1 + Expiry(instr))
    + (MaxDate - context.date)

\* BumpTime::apply(instruments, bumpable): rejects a date before the
\* Model's valuation date, changing nothing; otherwise drops the legs that
\* expired before the new date and moves the Model's valuation date.
BumpTimeApply(instrs, m, bump) ==
    IF bump.date < m.date
    THEN [ok |-> FALSE, instruments |-> instrs, model |-> m]
    ELSE [ok |-> TRUE,
          instruments |-> SelectSeq(instrs,
                              LAMBDA e : Expiry(e[2]) >= bump.date),
          model |-> [m EXCEPT !.date = bump.date]]

BumpTimes == [date : Dates]

\* -------------------------------------------------- the MonteCarloPricer
\* Mutant: the loop ends at the first instrument without Monte-Carlo
\* capability instead of going on to the next.
RECURSIVE PriceLoopBreaking(_, _, _, _)
PriceLoopBreaking(instrs, m, k, total) ==
    IF k > Len(instrs) THEN [ok |-> TRUE, val |-> total]
    ELSE LET weight == instrs[k][1]
             instrument == instrs[k][2]
         IN IF IsMcPriceable(instrument)
            THEN LET context == AsMcContext(m)
                 IN IF McPriceOk(instrument, context)
                    THEN PriceLoopBreaking(instrs, m, k + 1,
                             total + weight * McPrice(instrument, context))
                    ELSE [ok |-> FALSE, val |-> <<"mc_price", instrument>>]
            ELSE [ok |-> TRUE, val |-> total]

\* The for loop of price(), from entry k with the running total.
RECURSIVE PriceLoop(_, _, _, _)
PriceLoop(instrs, m, k, total) ==
    IF k > Len(instrs) THEN [ok |-> TRUE, val |-> total]
    ELSE LET weight == instrs[k][1]
             instrument == instrs[k][2]
         IN IF IsMcPriceable(instrument)
            THEN LET context == AsMcContext(m)
                 IN IF McPriceOk(instrument, context)
                    THEN PriceLoop(instrs, m, k + 1,
                             total + weight * McPrice(instrument, context))
                    ELSE [ok |-> FALSE, val |-> <<"mc_price", instrument>>]
            ELSE PriceLoop(instrs, m, k + 1, total)

\* Mutant: the loop starts at the second entry.
PriceSkipsFirst(instrs, m) == PriceLoop(instrs, m, 2, 0)

\* Pricer::price
Price(instrs, m) == PriceLoop(instrs, m, 1, 0)

\* Mutant: the Model is handed a fresh save target, so the caller's holds
\* only what the latest bump recorded.
BumpOverwrites(m, bump, sv) == ModelBump(m, bump, EmptySaveable)

\* Mutant: the Model's answer is dropped and true returned.
BumpAlwaysTrue(m, bump, sv) == [ModelBump(m, bump, sv) EXCEPT !.val = TRUE]

\* Bumpable::bump
Bump(m, bump, sv) == ModelBump(m, bump, sv)

\* Mutant: restore returns Ok without forwarding to the Model.
RestoreDropped(m, svd) == [ok |-> TRUE, model |-> m]

\* Mutant: restore also puts the Model back on the spot date.
RestoreResetsDate(m, svd) == [ModelRestore(m, svd) EXCEPT !.model.date = 0]

\* Bumpable::restore
Restore(m, svd) == ModelRestore(m, svd)

\* Bumpable::dependencies
Dependencies(m) == ModelDependencies(m)

\* Bumpable::context
Context(m) == ModelContext(m)

\* Mutant: the container returned already holds the Model's current
\* levels.
NewSaveableStale(m) == {<<o, m.levels[o]>> : o \in DOMAIN m.levels}

\* Bumpable::new_saveable
NewSaveable(m) == ModelNewSaveable(m)

\* Mutant: the Model's date is set to the bump's date, whatever it is.
BumpTimeUnguarded(instrs, m, bump) ==
    [ok |-> TRUE, instruments |-> instrs,
     model |-> [m EXCEPT !.date = bump.date]]

\* Mutant: the Model's date is moved before apply is called, and stays
\* moved when apply returns an error.
BumpTimeNoRollback(instrs, m, bump) ==
    LET r == BumpTimeApply(instrs, m, bump)
    IN IF r.ok THEN r ELSE [r EXCEPT !.model.date = bump.date]

\* TimeBumpable::bump_time
BumpTime(instrs, m, bump) == BumpTimeApply(instrs, m, bump)

\* ------------------------------------------------------------- the state
VARIABLES
    phase,        \* "init": no Pricer yet; "live": the factory returned a
                  \* Pricer; "failed": the factory returned an error
    instruments,  \* MonteCarloPricer.instruments
    model,        \* MonteCarloPricer.model
    save,         \* the caller's Saveable
    calls,        \* the collaborator calls the factory made, in order
    mcTimeline,   \* the Timeline the factory handed to the model factory
    last,         \* the last call on the Pricer and what it returned
    origin,       \* history: the Model and price before the first bump of
                  \* the current run of bump/restore cycles
    valid,        \* history: no time advancement fell between a bump and
                  \* its restore since origin was taken
    restored,     \* history: a restore succeeded and no bump followed it
    nbumps,       \* history: bumps recorded in save since its last clear
    cycles        \* history: bump/restore/clear cycles since origin

vars == <<phase, instruments, model, save, calls, mcTimeline, last, origin,
          valid, restored, nbumps, cycles>>

pricer == <<instruments, model>>
history == <<origin, valid, restored, nbumps, cycles>>

\* A call and what it returned: its arguments (a tuple), whether it returned
\* Ok, and the boolean, the number or the error it returned.
Returned(op, arg, ok, flag, num, err) ==
    [op |-> op, arg |-> arg, ok |-> ok, flag |-> flag, num |-> num,
     err |-> err]

NoCall == Returned("none", << >>, TRUE, FALSE, 0, << >>)

Snapshot(instrs, m) == [model |-> m, price |-> Price(instrs, m)]

Init ==
    /\ phase = "init"
    /\ instruments = << >>
    /\ model = NoModel
    /\ save = EmptySaveable
    /\ calls = << >>
    /\ mcTimeline = << >>
    /\ last = NoCall
    /\ origin = Snapshot(<< >>, NoModel)
    /\ valid = TRUE
    /\ restored = FALSE
    /\ nbumps = 0
    /\ cycles = 0

\* factory.new(instrument, fixings, market_data), the instrument's fix()
\* decomposing it into one of lists.
New(lists) ==
    /\ phase = "init"
    /\ \E instrument \in InstrumentIds, marketData \in MarketDatas,
          modelOk \in BOOLEAN :
         \E fixed \in FixResults(instrument, lists) :
           LET r == FactoryNew(instrument, fixed, marketData, modelOk)
           IN /\ phase' = IF r.ok THEN "live" ELSE "failed"
              /\ instruments' = r.instruments
              /\ model' = r.model
              /\ calls' = r.calls
              /\ mcTimeline' = r.timeline
              /\ last' = Returned("new",
                                   <<instrument, fixed, marketData, modelOk>>,
                                   r.ok, FALSE, 0, r.err)
              /\ origin' = Snapshot(r.instruments, r.model)
    /\ UNCHANGED <<save, valid, restored, nbumps, cycles>>

CallNew == New(SampleLists)

CallNewAny == New(WeightedLists)

\* Mutant: the total is not reset between two calls of price().
CallPriceAccumulating ==
    /\ phase = "live"
    /\ LET r == Price(instruments, model)
           carried == IF last.op = "price" THEN last.num ELSE 0
       IN last' = Returned("price", << >>, r.ok, FALSE,
                            IF r.ok THEN carried + r.val ELSE 0,
                            IF r.ok THEN << >> ELSE r.val)
    /\ UNCHANGED <<phase, instruments, model, save, calls, mcTimeline,
                   origin, valid, restored, nbumps, cycles>>

\* pricer.price()
CallPrice ==
    /\ phase = "live"
    /\ LET r == Price(instruments, model)
       IN last' = Returned("price", << >>, r.ok, FALSE,
                            IF r.ok THEN r.val ELSE 0,
                            IF r.ok THEN << >> ELSE r.val)
    /\ UNCHANGED <<phase, pricer, save, calls, mcTimeline, history>>

\* pricer.as_mut_bumpable().bump(&bump, &mut *save)
CallBump ==
    /\ phase = "live"
    /\ \E bump \in Bumps :
         LET r == Bump(model, bump, save)
         IN /\ \A o \in DOMAIN r.model.levels : r.model.levels[o] \in Levels
            /\ model' = r.model
            /\ save' = r.save
            /\ last' = Returned("bump", <<bump.target>>, r.ok, r.val, 0,
                                 IF r.ok THEN << >> ELSE <<"bump">>)
            /\ nbumps' = IF r.ok /\ r.val /\ nbumps < 2
                         THEN nbumps + 1 ELSE nbumps
            /\ restored' = IF r.ok /\ r.val THEN FALSE ELSE restored
    /\ UNCHANGED <<phase, instruments, calls, mcTimeline, origin, valid,
                   cycles>>

\* Mutant: a restore also drops the last leg of the weighted list.
CallRestoreTrimming ==
    /\ phase = "live"
    /\ LET r == Restore(model, save)
       IN /\ model' = r.model
          /\ instruments' = IF r.ok /\ Len(instruments) > 1
                            THEN SubSeq(instruments, 1, Len(instruments) - 1)
                            ELSE instruments
          /\ last' = Returned("restore", << >>, r.ok, FALSE, 0,
                               IF r.ok THEN << >> ELSE <<"restore">>)
          /\ restored' = IF r.ok THEN TRUE ELSE restored
    /\ UNCHANGED <<phase, save, calls, mcTimeline, origin, valid, nbumps,
                   cycles>>

\* pricer.as_mut_bumpable().restore(&*save)
CallRestore ==
    /\ phase = "live"
    /\ LET r == Restore(model, save)
       IN /\ model' = r.model
          /\ last' = Returned("restore", << >>, r.ok, FALSE, 0,
                               IF r.ok THEN << >> ELSE <<"restore">>)
          /\ restored' = IF r.ok THEN TRUE ELSE restored
    /\ UNCHANGED <<phase, instruments, save, calls, mcTimeline, origin, valid,
                   nbumps, cycles>>

\* What clearing or replacing the caller's Saveable does to the history.
Cleared ==
    /\ origin' = IF valid /\ restored THEN origin
                 ELSE Snapshot(instruments, model)
    /\ cycles' = IF valid /\ restored
                 THEN (IF nbumps > 0 THEN 1 ELSE cycles)
                 ELSE 0
    /\ valid' = TRUE
    /\ restored' = FALSE
    /\ nbumps' = 0

\* save.clear()
SaveClear ==
    /\ phase = "live"
    /\ save' = EmptySaveable
    /\ last' = Returned("clear", << >>, TRUE, FALSE, 0, << >>)
    /\ Cleared
    /\ UNCHANGED <<phase, pricer, calls, mcTimeline>>

\* save = pricer.as_bumpable().new_saveable()
CallNewSaveable ==
    /\ phase = "live"
    /\ save' = NewSaveable(model)
    /\ last' = Returned("new_saveable", << >>, TRUE, FALSE, 0, << >>)
    /\ Cleared
    /\ UNCHANGED <<phase, pricer, calls, mcTimeline>>

\* pricer.as_bumpable().dependencies()
CallDependencies ==
    /\ phase = "live"
    /\ last' = Returned("dependencies", << >>, TRUE, FALSE,
                         Cardinality(Dependencies(model)), << >>)
    /\ UNCHANGED <<phase, pricer, save, calls, mcTimeline, history>>

\* pricer.as_bumpable().context()
CallContext ==
    /\ phase = "live"
    /\ last' = Returned("context", << >>, TRUE, FALSE,
                         Cardinality(DOMAIN Context(model)), << >>)
    /\ UNCHANGED <<phase, pricer, save, calls, mcTimeline, history>>

\* pricer.as_mut_time_bumpable().bump_time(&time_bump)
CallBumpTime ==
    /\ phase = "live"
    /\ \E bump \in BumpTimes :
         LET r == BumpTime(instruments, model, bump)
             settled == restored \/ nbumps = 0
         IN /\ instruments' = r.instruments
            /\ model' = r.model
            /\ last' = Returned("bump_time", << >>, r.ok, FALSE, 0,
                                 IF r.ok THEN << >> ELSE <<"bump_time">>)
            /\ origin' = IF ~r.ok THEN origin
                         ELSE IF settled /\ valid
                         THEN Snapshot(r.instruments, r.model)
                         ELSE Snapshot(<< >>, NoModel)
            /\ valid' = IF r.ok /\ ~settled THEN FALSE ELSE valid
            /\ cycles' = IF r.ok THEN 0 ELSE cycles
    /\ UNCHANGED <<phase, save, calls, mcTimeline, restored, nbumps>>

Next ==
    \/ CallNew
    \/ CallPrice
    \/ CallBump
    \/ CallRestore
    \/ SaveClear
    \/ CallNewSaveable
    \/ CallDependencies
    \/ CallContext
    \/ CallBumpTime

Spec == Init /\ [][Next]_vars

\* Construction alone, over every bounded decomposition, followed by pricing.
NextFactory ==
    \/ CallNewAny
    \/ CallPrice

SpecFactory == Init /\ [][NextFactory]_vars

\* price() as a function of the Pricer's two fields: a MonteCarloPricer
\* holding any weighted list, Monte-Carlo priceable or not, and any Model
\* over the observables its instruments can reference.
PricerModels ==
    {[levels |-> l, date |-> d] :
         l \in [{"BP.L", "LSE"} -> Levels], d \in Dates}

InitPrice ==
    /\ phase = "live"
    /\ instruments \in WeightedLists
    /\ model \in PricerModels
    /\ save = EmptySaveable
    /\ calls = << >>
    /\ mcTimeline = << >>
    /\ last = NoCall
    /\ origin = Snapshot(<< >>, NoModel)
    /\ valid = TRUE
    /\ restored = FALSE
    /\ nbumps = 0
    /\ cycles = 0

NextPrice == CallPrice

SpecPrice == InitPrice /\ [][NextPrice]_vars

\* ------------------------------------------------------------ the claims
Live == phase = "live"

\* The state is one in which every bump since origin has been restored and
\* no time advancement fell between a bump and its restore.
Settled == Live /\ restored /\ valid

\* C1: after any number of consecutive bump / restore / clear cycles on the
\* same Saveable, the Model is exactly the Model before the first bump and
\* price() returns what it returned then.
C1_BumpRestoreExact ==
    Settled => /\ model = origin.model
               /\ Price(instruments, model) = origin.price

\* A second cycle's restore, after a bump that changed the Model.
C1_Witness ==
    /\ Settled
    /\ last.op = "restore"
    /\ cycles = 1
    /\ nbumps > 0
    /\ save # EmptySaveable
    /\ origin.price.ok

\* The resolved weighted list of the last factory call.
Resolved ==
    IF last.arg[2].kind = "some" THEN last.arg[2].list
    ELSE <<<<1, last.arg[1]>>>>

AfterNew == last.op = "new" /\ last.arg[2].kind # "err"

Ineligible == {k \in 1..Len(Resolved) : ~IsMcPriceable(Resolved[k][2])}

FirstIneligible == CHOOSE k \in Ineligible : \A j \in Ineligible : k <= j

\* C2 as stated: whenever an instrument of the resolved list lacks the
\* Monte-Carlo capability, the factory fails with an error that names an
\* instrument of the list lacking it, and no Pricer is produced.
C2_AsStated ==
    (AfterNew /\ Ineligible # {}) =>
        /\ phase = "failed"
        /\ ~last.ok
        /\ \E k \in Ineligible :
               last.err = NotPriceableError(Resolved[k][2])

\* C2 as amended: whenever an instrument of the resolved list lacks the
\* Monte-Carlo capability, the factory fails and no Pricer is produced (no
\* leg is dropped to make one); the error names the first such instrument
\* of the list, unless the mc_dependencies call of an instrument before it
\* failed, whose error is returned instead.
C2_IneligibleFailsConstruction ==
    (AfterNew /\ Ineligible # {}) =>
        /\ phase = "failed"
        /\ ~last.ok
        /\ instruments = << >>
        /\ model = NoModel
        /\ IF \A j \in 1..(FirstIneligible - 1) :
                   McDependenciesOk(Resolved[j][2])
           THEN last.err = NotPriceableError(Resolved[FirstIneligible][2])
           ELSE \E j \in 1..(FirstIneligible - 1) :
                   last.err = <<"mc_dependencies", Resolved[j][2]>>

\* A failed construction whose second leg is the ineligible one: the error
\* names it.
C2_Witness ==
    /\ AfterNew
    /\ phase = "failed"
    /\ Len(Resolved) = 2
    /\ Ineligible = {2}
    /\ last.err = NotPriceableError(Resolved[2][2])

\* C3: a second or later bump into the same save target adds to it and
\* never overwrites or drops what it holds, so one restore brings the Model
\* back to the state it had when the save target was last cleared.
C3_SecondBumpComposes ==
    /\ [][(Live /\ last'.op = "bump") => save \subseteq save']_vars
    /\ [](Settled /\ nbumps >= 2 => model = origin.model)

\* One restore after two bumps, the second on an observable the save
\* target already held.
C3_Witness ==
    /\ Settled
    /\ last.op = "restore"
    /\ nbumps = 2
    /\ Cardinality(save) = 1

\* C4: bump returns true exactly when it changed the Model; a bump whose
\* target the Model never referenced returns false and leaves the Model,
\* and so price(), unchanged.
C4_BumpReturnsWhetherChanged ==
    [][(Live /\ last'.op = "bump" /\ last'.ok) =>
          /\ last'.flag <=> (model' # model)
          /\ last'.arg[1] \notin Dependencies(model) =>
                 /\ last'.flag = FALSE
                 /\ model' = model
                 /\ Price(instruments', model') = Price(instruments, model)
      ]_vars

\* A bump on an unreferenced observable returned false, with an earlier
\* bump still recorded in the save target.
C4_Witness ==
    /\ Live
    /\ last.op = "bump"
    /\ last.ok
    /\ ~last.flag
    /\ last.arg[1] \notin Dependencies(model)
    /\ save # EmptySaveable

RECURSIVE WeightedSum(_, _, _)
WeightedSum(instrs, m, k) ==
    IF k > Len(instrs) THEN 0
    ELSE WeightedSum(instrs, m, k + 1) + instrs[k][1] * McPrice(instrs[k][2], m)

\* C7: price() returns the sum over every entry of the weighted list of
\* weight times the instrument's mc_price on the Model's current context
\* (and an error exactly when one of those mc_price calls fails).
C7_PriceIsWeightedSum ==
    (Live /\ last.op = "price") =>
        IF \A k \in 1..Len(instruments) : McPriceOk(instruments[k][2], model)
        THEN last.ok /\ last.num = WeightedSum(instruments, model, 1)
        ELSE ~last.ok

\* A price of two legs with unequal weights.
C7_Witness ==
    /\ Live
    /\ last.op = "price"
    /\ last.ok
    /\ Len(instruments) = 2
    /\ instruments[1][1] # instruments[2][1]
    /\ last.num > 0

\* C8: price() changes neither the weighted list nor the Model, and a
\* price() that directly follows a price() returns the identical result.
C8_PriceIsReadOnly ==
    [][(Live /\ last'.op = "price") =>
          /\ instruments' = instruments
          /\ model' = model
          /\ save' = save
          /\ last.op = "price" => last' = last
      ]_vars

\* A price taken on a bumped Model.
C8_Witness ==
    /\ Live
    /\ last.op = "price"
    /\ last.ok
    /\ nbumps > 0
    /\ ~restored

\* C9: the Pricer holds exactly the list fix() yields, and exactly the
\* original instrument at weight 1 when fix() yields nothing.
C9_FixedListHeld ==
    (Live /\ last.op = "new") =>
        /\ last.arg[2].kind = "some" => instruments = last.arg[2].list
        /\ last.arg[2].kind = "none" =>
               /\ Len(instruments) = 1
               /\ instruments[1] = <<1, last.arg[1]>>

\* A Pricer built from a two-leg decomposition.
C9_Witness ==
    /\ Live
    /\ last.op = "new"
    /\ last.arg[2].kind = "some"
    /\ Len(instruments) = 2
    /\ instruments[1] # instruments[2]

\* The positions of the calls log holding a call of the given kind.
CallsOf(kind) == {k \in 1..Len(calls) : calls[k][1] = kind}

\* C10: every eligibility check and the timeline collation come before the
\* context prefetch and the model factory; when an instrument is ineligible
\* or collation fails, neither the prefetch nor the model factory is called.
C10_ValidationBeforeModel ==
    (phase # "init") =>
        /\ \A b \in CallsOf("prefetch") \cup CallsOf("factory") :
              /\ CallsOf("collate") # {}
              /\ \A a \in CallsOf("spot") \cup CallsOf("mc_dependencies")
                          \cup CallsOf("collate") : a < b
        /\ (AfterNew /\ CallsOf("prefetch") \cup CallsOf("factory") # {}) =>
              \A k \in 1..Len(Resolved) :
                  /\ IsMcPriceable(Resolved[k][2])
                  /\ \E a \in CallsOf("mc_dependencies") :
                         calls[a][2] = Resolved[k][2]
        /\ (AfterNew /\ (Ineligible # {} \/ last.err = <<"collate">>)) =>
              CallsOf("prefetch") \cup CallsOf("factory") = {}

\* Collation failed after the eligibility checks passed: the model factory
\* was not called.
C10_Witness ==
    /\ phase = "failed"
    /\ last.err = <<"collate">>
    /\ CallsOf("collate") # {}
    /\ CallsOf("factory") = {}

\* Whether the collaborator call logged at position k of calls failed, told
\* from the arguments of the factory call alone.
StepFailed(k) ==
    CASE calls[k][1] = "fix" -> last.arg[2].kind = "err"
      [] calls[k][1] = "mc_dependencies" -> ~McDependenciesOk(calls[k][2])
      [] calls[k][1] = "collate" ->
             \A j \in 1..Len(Resolved) : McDates(Resolved[j][2]) = << >>
      [] calls[k][1] = "prefetch" ->
             \E j \in 1..Len(Resolved) :
                 Underlying(Resolved[j][2]) \notin last.arg[3].avail
      [] calls[k][1] = "factory" -> ~last.arg[4]
      [] OTHER -> FALSE

\* The error the call logged at position k fails with.
StepError(k) ==
    IF calls[k][1] = "fix" THEN <<"fix", last.arg[1]>> ELSE calls[k]

\* C11: a construction step that fails (fixing resolution, an instrument's
\* mc_dependencies, timeline collation, context prefetch, model factory) is
\* the last step made, its error is the error new() returns, and no Pricer
\* is produced; a construction that returns a Pricer made every step and
\* none of them failed.
C11_StepErrorPropagates ==
    (last.op = "new") =>
        /\ \A k \in 1..Len(calls) :
              StepFailed(k) =>
                  /\ k = Len(calls)
                  /\ phase = "failed"
                  /\ ~last.ok
                  /\ last.err = StepError(k)
                  /\ instruments = << >>
                  /\ model = NoModel
        /\ Live =>
              /\ last.ok
              /\ CallsOf("fix") # {}
              /\ \A j \in 1..Len(Resolved) :
                     \E k \in CallsOf("mc_dependencies") :
                         calls[k][2] = Resolved[j][2]
              /\ CallsOf("collate") # {}
              /\ CallsOf("prefetch") # {}
              /\ CallsOf("factory") # {}

\* The context prefetch failed after fixing, both mc_dependencies calls and
\* the collation succeeded.
C11_Witness ==
    /\ phase = "failed"
    /\ last.op = "new"
    /\ last.err = <<"prefetch">>
    /\ Cardinality(CallsOf("mc_dependencies")) = 2
    /\ CallsOf("collate") # {}
    /\ CallsOf("factory") = {}

\* The dates the instruments of the resolved list declare.
DeclaredDates ==
    UNION {{McDates(Resolved[j][2])[i] :
                i \in 1..Len(McDates(Resolved[j][2]))} :
           j \in 1..Len(Resolved)}

TimelineDates == {mcTimeline[t] : t \in 1..Len(mcTimeline)}

\* C12: for a successfully constructed Pricer, every date an instrument of
\* the resolved list declared through mc_dependencies is a date of the
\* collated Timeline handed to the model factory.
C12_DeclaredDatesInTimeline ==
    (Live /\ last.op = "new") =>
        \A j \in 1..Len(Resolved) :
            \A i \in 1..Len(McDates(Resolved[j][2])) :
                McDates(Resolved[j][2])[i] \in TimelineDates

\* A Pricer of two legs that declared different dates.
C12_Witness ==
    /\ Live
    /\ last.op = "new"
    /\ Len(Resolved) = 2
    /\ McDates(Resolved[1][2]) # McDates(Resolved[2][2])
    /\ McDates(Resolved[1][2]) # << >>
    /\ Len(mcTimeline) = 2

\* C13: the Timeline handed to the model factory is collated: its dates are
\* strictly increasing, hence without duplicates, in whatever order and
\* multiplicity the instruments added them, and it is the collated schedule
\* unmodified: it holds the declared dates and no other.
C13_TimelineCollated ==
    (CallsOf("factory") # {}) =>
        /\ \A a, b \in 1..Len(mcTimeline) :
              a < b => mcTimeline[a] < mcTimeline[b]
        /\ (last.op = "new") => TimelineDates = DeclaredDates

\* The model factory was handed the schedule of a leg that declared a date
\* twice and out of order.
C13_Witness ==
    /\ CallsOf("factory") # {}
    /\ last.op = "new"
    /\ \E j \in 1..Len(Resolved) :
           LET d == McDates(Resolved[j][2])
           IN /\ Len(d) = 3
              /\ d[1] > d[2]
              /\ d[1] = d[3]
    /\ Len(mcTimeline) = 2

Eligible(instrs) == SelectSeq(instrs, LAMBDA e : IsMcPriceable(e[2]))

\* C17: an instrument of the list without Monte-Carlo capability is skipped
\* by price(): it adds nothing to the total and raises no error, the result
\* being the weighted sum over the remaining instruments (or the error of
\* one of their mc_price calls).
C17_IneligibleSkipped ==
    (Live /\ last.op = "price") =>
        LET rest == Eligible(instruments)
        IN IF \A k \in 1..Len(rest) : McPriceOk(rest[k][2], model)
           THEN last.ok /\ last.num = WeightedSum(rest, model, 1)
           ELSE /\ ~last.ok
                /\ \E k \in 1..Len(rest) :
                       last.err = <<"mc_price", rest[k][2]>>

\* A price of a list whose first instrument has no Monte-Carlo capability
\* and whose second has.
C17_Witness ==
    /\ Live
    /\ last.op = "price"
    /\ last.ok
    /\ Len(instruments) = 2
    /\ ~IsMcPriceable(instruments[1][2])
    /\ IsMcPriceable(instruments[2][2])
    /\ last.num > 0

\* C18: dependencies(), context() and new_saveable() leave the weighted
\* list and the Model as they were, and new_saveable() returns an empty
\* container.
C18_AccessorsReadOnly ==
    [][/\ (Live /\ last'.op \in {"dependencies", "context", "new_saveable"})
            => /\ instruments' = instruments
               /\ model' = model
       /\ (Live /\ last'.op = "new_saveable") => save' = EmptySaveable
      ]_vars

\* A container requested from a Model that a bump has changed.
C18_Witness ==
    /\ Live
    /\ last.op = "new_saveable"
    /\ save = EmptySaveable
    /\ \E o \in DOMAIN model.levels : model.levels[o] # SnapshotLevel(o)

\* C19: a bump or a restore, whether it succeeds or fails, leaves the
\* weighted list (its instruments, their order, their weights) as it was;
\* the only call on a Pricer after which the list differs is a bump_time
\* that returned Ok.
C19_OnlyBumpTimeChangesList ==
    [][Live =>
          /\ last'.op \in {"bump", "restore"} => instruments' = instruments
          /\ instruments' # instruments =>
                 (last'.op = "bump_time" /\ last'.ok)
      ]_vars

\* A bump the Model rejected, on a Pricer whose list a bump_time had
\* shortened.
C19_Witness ==
    /\ Live
    /\ last.op = "bump"
    /\ ~last.ok
    /\ Len(instruments) = 1
    /\ Cardinality(CallsOf("mc_dependencies")) = 2
    /\ model.date > 0

====
